---------------------------- MODULE Spec2Model ----------------------------
(***************************************************************************)
(* A model of ats_core.py, the heuristic resume parser.                    *)
(*                                                                         *)
(* Text is a sequence of characters; a character is a one-letter string,   *)
(* or one of the named characters LF, CR, TAB, NBSP, BULLET.  The regular  *)
(* expressions of the source are written as terms (Lit, Set, Cat, Alt,     *)
(* Rep, WordB, Bol) and matched by a backtracking matcher that yields the  *)
(* ends of the matches in the order Python's re module tries them.         *)
(***************************************************************************)
EXTENDS Integers, Sequences, FiniteSets, TLC

VARIABLES pc, raw, text, lines, sections, ret, k, current, cur, entries, hashseed, out

vars == <<pc, raw, text, lines, sections, ret, k, current, cur, entries, hashseed, out>>

-----------------------------------------------------------------------------
(* Characters *)

LF == "LF"
CR == "CR"
TAB == "TAB"
NBSP == "NBSP"
BULLET == "BULLET"

UpperSeq == <<"A","B","C","D","E","F","G","H","I","J","K","L","M",
              "N","O","P","Q","R","S","T","U","V","W","X","Y","Z">>
LowerSeq == <<"a","b","c","d","e","f","g","h","i","j","k","l","m",
              "n","o","p","q","r","s","t","u","v","w","x","y","z">>

UpperSet == {UpperSeq[j] : j \in 1..26}
LowerSet == {LowerSeq[j] : j \in 1..26}
DigitSet == {"0","1","2","3","4","5","6","7","8","9"}
\* \w of the re module, on the characters of the model
WordSet == UpperSet \cup LowerSet \cup DigitSet \cup {"_"}
\* \s of the re module and the characters str.strip() removes
SpaceSet == {" ", LF, CR, TAB, NBSP}

LowerOf == [c \in UpperSet |-> LowerSeq[CHOOSE j \in 1..26 : UpperSeq[j] = c]]
UpperOf == [c \in LowerSet |-> UpperSeq[CHOOSE j \in 1..26 : LowerSeq[j] = c]]

ToLower(c) == IF c \in UpperSet THEN LowerOf[c] ELSE c
ToUpper(c) == IF c \in LowerSet THEN UpperOf[c] ELSE c

\* str.lower()
StrLower(s) == [j \in 1..Len(s) |-> ToLower(s[j])]

\* s[a:b] of Python, 0 <= a, b <= len(s)
Slice(s, a, b) == IF a >= b THEN <<>> ELSE SubSeq(s, a + 1, b)

-----------------------------------------------------------------------------
(* Regular expressions *)

Unbounded == -1

Lit(s) == <<"lit", s>>
Set(S) == <<"set", S>>
Cat(rs) == <<"cat", rs>>
Alt(rs) == <<"alt", rs>>
Rep(r, lo, hi) == <<"rep", r, lo, hi>>
Star(r) == Rep(r, 0, Unbounded)
Plus(r) == Rep(r, 1, Unbounded)
Opt(r) == Rep(r, 0, 1)
WordB == <<"wordb">>
Bol == <<"bol">>

CharEq(c, d, ic) == IF ic THEN ToLower(c) = ToLower(d) ELSE c = d
InClass(c, S, ic) == IF ic THEN c \in S \/ ToLower(c) \in S \/ ToUpper(c) \in S
                     ELSE c \in S

IsWordAt(s, j) == j >= 1 /\ j <= Len(s) /\ s[j] \in WordSet

RECURSIVE Ends(_, _, _, _)
RECURSIVE EndsFromAll(_, _, _, _)
RECURSIVE CatEnds(_, _, _, _, _)
RECURSIVE AltEnds(_, _, _, _, _)
RECURSIVE RepEnds(_, _, _, _, _)
RECURSIVE RepMore(_, _, _, _, _, _)

\* The ends e (0..Len(s)) of the matches of r in s that begin at offset i, in the
\* order a backtracking matcher tries them; ic is the flag re.I.
Ends(r, s, i, ic) ==
    CASE r[1] = "lit" ->
           IF /\ i + Len(r[2]) <= Len(s)
              /\ \A j \in 1..Len(r[2]) : CharEq(s[i + j], r[2][j], ic)
           THEN <<i + Len(r[2])>> ELSE <<>>
      [] r[1] = "set" ->
           IF i < Len(s) /\ InClass(s[i + 1], r[2], ic) THEN <<i + 1>> ELSE <<>>
      [] r[1] = "cat" -> CatEnds(r[2], 1, s, <<i>>, ic)
      [] r[1] = "alt" -> AltEnds(r[2], 1, s, i, ic)
      [] r[1] = "rep" -> RepEnds(r, s, i, 0, ic)
      [] r[1] = "wordb" ->
           IF IsWordAt(s, i) # IsWordAt(s, i + 1) THEN <<i>> ELSE <<>>
      [] r[1] = "bol" -> IF i = 0 THEN <<i>> ELSE <<>>

\* r matched from each of the offsets `from`, in their order
EndsFromAll(r, s, from, ic) ==
    IF from = <<>> THEN <<>>
    ELSE Ends(r, s, from[1], ic) \o EndsFromAll(r, s, Tail(from), ic)

\* rs[j], rs[j+1], ... matched in turn, beginning at the offsets `from`
CatEnds(rs, j, s, from, ic) ==
    IF j > Len(rs) THEN from
    ELSE CatEnds(rs, j + 1, s, EndsFromAll(rs[j], s, from, ic), ic)

AltEnds(rs, j, s, i, ic) ==
    IF j > Len(rs) THEN <<>>
    ELSE Ends(rs[j], s, i, ic) \o AltEnds(rs, j + 1, s, i, ic)

RepEnds(r, s, i, n, ic) ==
    (IF r[4] = Unbounded \/ n < r[4]
     THEN RepMore(r, s, Ends(r[2], s, i, ic), i, n, ic) ELSE <<>>)
    \o (IF n >= r[3] THEN <<i>> ELSE <<>>)

RepMore(r, s, es, i, n, ic) ==
    IF es = <<>> THEN <<>>
    ELSE (IF es[1] > i THEN RepEnds(r, s, es[1], n + 1, ic) ELSE <<>>)
         \o RepMore(r, s, Tail(es), i, n, ic)


RECURSIVE ReSearchFrom(_, _, _, _)
\* The first match of r in s at or after offset p, as <<start, end>>, or <<>>.
ReSearchFrom(r, s, p, ic) ==
    IF p > Len(s) THEN <<>>
    ELSE LET es == Ends(r, s, p, ic)
         IN  IF es # <<>> THEN <<p, es[1]>> ELSE ReSearchFrom(r, s, p + 1, ic)

\* re.search(r, s) is not None
ReSearch(r, s, ic) == ReSearchFrom(r, s, 0, ic) # <<>>

\* re.match(r, s) is not None
ReMatch(r, s, ic) == Ends(r, s, 0, ic) # <<>>

\* re.fullmatch(r, s) is not None
ReFullMatch(r, s, ic) == \E j \in DOMAIN Ends(r, s, 0, ic) : Ends(r, s, 0, ic)[j] = Len(s)

\* The patterns of the source match no empty string; the matcher steps over an
\* empty match so that every scan ends.
RECURSIVE SubFrom(_, _, _, _, _)
SubFrom(r, repl, s, p, ic) ==
    LET m == ReSearchFrom(r, s, p, ic)
    IN  IF m = <<>> THEN Slice(s, p, Len(s))
        ELSE IF m[2] > m[1]
             THEN Slice(s, p, m[1]) \o repl \o SubFrom(r, repl, s, m[2], ic)
             ELSE Slice(s, p, m[1] + 1) \o SubFrom(r, repl, s, m[1] + 1, ic)

\* re.sub(r, repl, s)
ReSub(r, repl, s, ic) == SubFrom(r, repl, s, 0, ic)

RECURSIVE FindAllFrom(_, _, _, _)
FindAllFrom(r, s, p, ic) ==
    LET m == ReSearchFrom(r, s, p, ic)
    IN  IF m = <<>> THEN <<>>
        ELSE IF m[2] > m[1]
             THEN <<Slice(s, m[1], m[2])>> \o FindAllFrom(r, s, m[2], ic)
             ELSE FindAllFrom(r, s, m[1] + 1, ic)

\* re.findall(r, s), for a pattern without capturing groups
ReFindAll(r, s, ic) == FindAllFrom(r, s, 0, ic)

RECURSIVE SplitFrom(_, _, _, _, _)
SplitFrom(r, s, p, q, ic) ==
    LET m == ReSearchFrom(r, s, q, ic)
    IN  IF m = <<>> THEN <<Slice(s, p, Len(s))>>
        ELSE IF m[2] > m[1]
             THEN <<Slice(s, p, m[1])>> \o SplitFrom(r, s, m[2], m[2], ic)
             ELSE SplitFrom(r, s, p, m[1] + 1, ic)

\* re.split(r, s), for a pattern without capturing groups
ReSplit(r, s, ic) == SplitFrom(r, s, 0, 0, ic)

-----------------------------------------------------------------------------
(* str methods *)

RECURSIVE LStripSet(_, _)
\* s.lstrip(chars)
LStripSet(s, S) == IF s # <<>> /\ s[1] \in S THEN LStripSet(Tail(s), S) ELSE s

RECURSIVE RStripSet(_, _)
\* s.rstrip(chars)
RStripSet(s, S) ==
    IF s # <<>> /\ s[Len(s)] \in S THEN RStripSet(SubSeq(s, 1, Len(s) - 1), S) ELSE s

\* s.strip(chars)
StripSet(s, S) == RStripSet(LStripSet(s, S), S)

\* s.strip()
Strip(s) == StripSet(s, SpaceSet)

\* sub in s
Contains(s, sub) ==
    \E p \in 0..(Len(s) - Len(sub)) : \A j \in 1..Len(sub) : s[p + j] = sub[j]

\* s.startswith(prefix)
StartsWith(s, prefix) ==
    Len(prefix) <= Len(s) /\ \A j \in 1..Len(prefix) : s[j] = prefix[j]

RECURSIVE Join(_, _)
\* sep.join(parts)
Join(parts, sep) ==
    IF parts = <<>> THEN <<>>
    ELSE IF Len(parts) = 1 THEN parts[1]
    ELSE parts[1] \o sep \o Join(Tail(parts), sep)

\* [x for x in seq if x], for a sequence of strings
RECURSIVE NonEmpty(_)
NonEmpty(seq) ==
    IF seq = <<>> THEN <<>>
    ELSE (IF seq[1] # <<>> THEN <<seq[1]>> ELSE <<>>) \o NonEmpty(Tail(seq))

\* s.split(): the words of s
Words(s) == NonEmpty(ReSplit(Plus(Set(SpaceSet)), s, FALSE))

\* list(dict.fromkeys(seq)): the first occurrence of each element, in order
RECURSIVE DictFromKeys(_)
DictFromKeys(seq) ==
    IF seq = <<>> THEN <<>>
    ELSE LET init == DictFromKeys(SubSeq(seq, 1, Len(seq) - 1))
             last == seq[Len(seq)]
         IN  IF \E j \in DOMAIN init : init[j] = last THEN init
             ELSE Append(init, last)

-----------------------------------------------------------------------------
(* read_text_from_file: the whitespace normalisation *)

\* re.sub(r'\r', '\n', text)
SubCr(s) == ReSub(Lit(<<CR>>), <<LF>>, s, FALSE)

\* re.sub(r'\u00A0', ' ', text)
SubNbsp(s) == ReSub(Lit(<<NBSP>>), <<" ">>, s, FALSE)

\* The pattern written with a doubled backslash: it matches a backslash and a t
SubTabEscaped(s) == ReSub(Lit(<<"\\", "t">>), <<" ">>, s, FALSE)

\* re.sub(r'\t', ' ', text)
SubTab(s) == ReSub(Lit(<<TAB>>), <<" ">>, s, FALSE)

\* The pattern with ? for *: one space at most on either side of the newline
TrimOneSpaceAroundNewlines(s) ==
    ReSub(Cat(<<Opt(Lit(<<" ">>)), Lit(<<LF>>), Opt(Lit(<<" ">>))>>), <<LF>>, s, FALSE)

\* re.sub(r' *\n *', '\n', text)
TrimAroundNewlines(s) ==
    ReSub(Cat(<<Star(Lit(<<" ">>)), Lit(<<LF>>), Star(Lit(<<" ">>))>>), <<LF>>, s, FALSE)

\* re.sub(r'\n{3,}', '\n\n', text)
CollapseNewlines(s) == ReSub(Rep(Lit(<<LF>>), 3, Unbounded), <<LF, LF>>, s, FALSE)

\* The whole pipeline of lines 58-63
Normalize(s) ==
    Strip(CollapseNewlines(TrimAroundNewlines(SubTab(SubNbsp(SubCr(s))))))

-----------------------------------------------------------------------------
(* Bounds and the states no operation is using *)

\* All sequences over S of length at most n
SeqsUpTo(S, n) == UNION {[1..m -> S] : m \in 0..n}

MaxTextLen == 5

\* The characters of the raw text given to the normalisation
NormAlphabet == {"a", " ", TAB, CR, LF, NBSP}

NoText == raw = <<>> /\ text = <<>>
NoLines == lines = <<>> /\ sections = <<>>
NoLoop == k = 0 /\ current = <<>> /\ cur = <<>> /\ entries = <<>>
NoRuns == hashseed = <<>> /\ out = <<>>

-----------------------------------------------------------------------------
(* SpecNormalize: read_text_from_file from line 57 on, one action a statement *)

InitNormalize ==
    /\ pc = "sub_cr"
    /\ raw \in SeqsUpTo(NormAlphabet, MaxTextLen)
    /\ text = raw
    /\ ret = <<>>
    /\ NoLines /\ NoLoop /\ NoRuns

NormStep(from, to, t) ==
    /\ pc = from
    /\ pc' = to
    /\ text' = t
    /\ UNCHANGED <<raw, lines, sections, ret, k, current, cur, entries, hashseed, out>>

DoSubCr == NormStep("sub_cr", "sub_nbsp", SubCr(text))
DoSubNbsp == NormStep("sub_nbsp", "sub_tab", SubNbsp(text))
DoSubTab == NormStep("sub_tab", "trim", SubTab(text))
DoTrimAroundNewlines == NormStep("trim", "collapse", TrimAroundNewlines(text))
DoCollapseNewlines == NormStep("collapse", "strip", CollapseNewlines(text))

\* return text.strip()
ReturnStrip ==
    /\ pc = "strip"
    /\ pc' = "normalized"
    /\ ret' = Strip(text)
    /\ UNCHANGED <<raw, text, lines, sections, k, current, cur, entries, hashseed, out>>

NextNormalize ==
    \/ DoSubCr
    \/ DoSubNbsp
    \/ DoSubTab
    \/ DoTrimAroundNewlines
    \/ DoCollapseNewlines
    \/ ReturnStrip

SpecNormalize == InitNormalize /\ [][NextNormalize]_vars

\* A line of s begins or ends with a space
LineEdgeSpace(s) ==
    \E j \in 1..Len(s) :
        /\ s[j] = " "
        /\ \/ j = 1 \/ s[j - 1] = LF
           \/ j = Len(s) \/ s[j + 1] = LF

\* C3: normalisation is idempotent: normalising the returned text again gives
\* the returned text.
C3_NormalizeIdempotent == pc = "normalized" => Normalize(ret) = ret

\* A text that the normalisation changed in every stage it has, with a blank
\* line kept in the result.
C3_Witness ==
    /\ pc = "normalized"
    /\ ret # raw
    /\ Contains(ret, <<LF, LF>>)
    /\ Contains(raw, <<" ", LF>>)

\* C4: the returned text holds no tab, carriage return or non-breaking space,
\* no three consecutive newlines and no line with a space at either end; the
\* empty text is returned for the empty text.
C4_NormalizedForm ==
    pc = "normalized" =>
        /\ \A j \in 1..Len(ret) : ret[j] \notin {TAB, CR, NBSP}
        /\ ~Contains(ret, <<LF, LF, LF>>)
        /\ ~LineEdgeSpace(ret)
        /\ (raw = <<>> => ret = <<>>)

\* A raw text with three newlines in a row and a tab, normalised.
C4_Witness ==
    /\ pc = "normalized"
    /\ Contains(raw, <<LF, LF, LF>>)
    /\ Contains(raw, <<TAB>>)
    /\ ret # <<>>

-----------------------------------------------------------------------------
(* The vocabulary of section headers, and locate_sections *)

SECTION_HEADERS ==
    << <<"s","u","m","m","a","r","y">>,
       <<"o","b","j","e","c","t","i","v","e">>,
       <<"e","d","u","c","a","t","i","o","n">>,
       <<"e","x","p","e","r","i","e","n","c","e">>,
       <<"w","o","r","k"," ","e","x","p","e","r","i","e","n","c","e">>,
       <<"p","r","o","f","e","s","s","i","o","n","a","l"," ","e","x","p","e","r","i","e","n","c","e">>,
       <<"p","r","o","j","e","c","t","s">>,
       <<"s","k","i","l","l","s">>,
       <<"c","e","r","t","i","f","i","c","a","t","i","o","n","s">>,
       <<"p","u","b","l","i","c","a","t","i","o","n","s">>,
       <<"a","w","a","r","d","s">>,
       <<"a","c","h","i","e","v","e","m","e","n","t","s">>,
       <<"l","a","n","g","u","a","g","e","s">>,
       <<"i","n","t","e","r","e","s","t","s">> >>

\* The first header of the vocabulary that the line is, or begins with, once
\* lowercased and stripped of colons and spaces; 0 when there is none.
HeaderIndex(line) ==
    LET ll == Strip(StripSet(StrLower(line), {":", " "}))
        hits == {h \in DOMAIN SECTION_HEADERS :
                    ll = SECTION_HEADERS[h] \/ StartsWith(ll, SECTION_HEADERS[h])}
    IN  IF hits = {} THEN 0 ELSE CHOOSE h \in hits : \A g \in hits : h <= g

RECURSIVE ScanHeaders(_, _)
\* The list `indices` after the first loop has read lines[0 .. n-1]: the pairs
\* <<header, idx>> with idx counted from 0.
ScanHeaders(ls, n) ==
    IF n = 0 THEN <<>>
    ELSE LET h == HeaderIndex(ls[n])
         IN  IF h = 0 THEN ScanHeaders(ls, n - 1)
             ELSE Append(ScanHeaders(ls, n - 1), <<SECTION_HEADERS[h], n - 1>>)

RECURSIVE InsertByIdx(_, _)
InsertByIdx(sorted, x) ==
    IF sorted = <<>> THEN <<x>>
    ELSE IF sorted[Len(sorted)][2] <= x[2] THEN Append(sorted, x)
    ELSE Append(InsertByIdx(SubSeq(sorted, 1, Len(sorted) - 1), x), sorted[Len(sorted)])

RECURSIVE SortByIdx(_)
\* indices.sort(key=lambda x: x[1]), a stable sort
SortByIdx(ix) ==
    IF ix = <<>> THEN <<>>
    ELSE InsertByIdx(SortByIdx(SubSeq(ix, 1, Len(ix) - 1)), ix[Len(ix)])

\* The indices list of the lines, sorted
HeaderIndices(ls) == SortByIdx(ScanHeaders(ls, Len(ls)))

\* Every range run to the end of the lines
SectionEndAlwaysLast(ix, i, n) == n

\* end = indices[i + 1][1] if i + 1 < len(indices) else len(lines); i from 1 here
SectionEnd(ix, i, n) == IF i + 1 <= Len(ix) THEN ix[i + 1][2] ELSE n

RECURSIVE BuildSections(_, _, _)
\* The dict `sections` after the second loop has stored the first i entries of
\* indices: a later entry of the same header replaces the earlier one.
BuildSections(ix, i, n) ==
    IF i = 0 THEN <<>>
    ELSE (ix[i][1] :> <<ix[i][2] + 1, SectionEnd(ix, i, n)>>)
         @@ BuildSections(ix, i - 1, n)

locate_sections(ls) ==
    LET ix == HeaderIndices(ls) IN BuildSections(ix, Len(ix), Len(ls))

\* split_lines: the trimmed non-empty pieces between the newlines
RECURSIVE StripAll(_)
StripAll(parts) ==
    IF parts = <<>> THEN <<>> ELSE <<Strip(parts[1])>> \o StripAll(Tail(parts))

split_lines(t) == NonEmpty(StripAll(ReSplit(Lit(<<LF>>), t, FALSE)))

-----------------------------------------------------------------------------
(* SpecSections: locate_sections on a sequence of lines *)

MaxSectionLines == 4

SectionLines ==
    { <<"S","k","i","l","l","s">>,
      <<"S","K","I","L","L","S",":">>,
      <<"E","d","u","c","a","t","i","o","n">>,
      <<"W","o","r","k"," ","E","x","p","e","r","i","e","n","c","e">>,
      <<"E","x","p","e","r","i","e","n","c","e","d">>,
      <<"P","y","t","h","o","n">> }

InitSections ==
    /\ pc = "locate"
    /\ lines \in SeqsUpTo(SectionLines, MaxSectionLines)
    /\ sections = <<>>
    /\ ret = <<>>
    /\ NoText /\ NoLoop /\ NoRuns

CallLocateSections ==
    /\ pc = "locate"
    /\ pc' = "located"
    /\ sections' = locate_sections(lines)
    /\ UNCHANGED <<raw, text, lines, ret, k, current, cur, entries, hashseed, out>>

NextSections == CallLocateSections

SpecSections == InitSections /\ [][NextSections]_vars

\* The range the claim gives to the i-th detected header line
ClaimedRange(ix, i, n) ==
    <<ix[i][2] + 1, IF i < Len(ix) THEN ix[i + 1][2] ELSE n>>

\* C1 as stated: the range stored for the header detected at each header line ends
\* at the next detected header line, or at len(lines) for the last, also when
\* a header name is detected on several lines.
C1_EveryHeaderLineRange ==
    pc = "located" =>
        LET ix == HeaderIndices(lines)
        IN  \A i \in 1..Len(ix) :
                /\ ix[i][1] \in DOMAIN sections
                /\ sections[ix[i][1]] = ClaimedRange(ix, i, Len(lines))

\* C1 amended: the same, for each detected header line whose header name is not
\* detected again on a later line; the keys of the map are the detected names.
C1_LastOccurrenceRange ==
    pc = "located" =>
        LET ix == HeaderIndices(lines)
        IN  /\ DOMAIN sections = {ix[i][1] : i \in 1..Len(ix)}
            /\ \A i \in 1..Len(ix) :
                 (\A j \in (i + 1)..Len(ix) : ix[j][1] # ix[i][1])
                    => sections[ix[i][1]] = ClaimedRange(ix, i, Len(lines))

\* Three header lines, the first and the last of the same name, located.
C1_Witness ==
    /\ pc = "located"
    /\ Len(lines) = 4
    /\ HeaderIndex(lines[1]) # 0
    /\ HeaderIndex(lines[2]) # 0
    /\ HeaderIndex(lines[2]) # HeaderIndex(lines[1])
    /\ HeaderIndex(lines[3]) = 0
    /\ HeaderIndex(lines[4]) = HeaderIndex(lines[1])
    /\ sections[SECTION_HEADERS[HeaderIndex(lines[2])]] = <<2, 3>>
    /\ sections[SECTION_HEADERS[HeaderIndex(lines[1])]] = <<4, 4>>

-----------------------------------------------------------------------------
(* guess_name *)

NameScanLimit == 7
NameMaxLen == 70
NameMaxWords == 5

\* re.search(r'@|http|www', line, flags=re.I)
HasContactMark(line) ==
    ReSearch(Alt(<<Lit(<<"@">>), Lit(<<"h","t","t","p">>), Lit(<<"w","w","w">>)>>), line, TRUE)

\* line.lower().strip() in SECTION_HEADERS
IsHeaderWord(line) ==
    \E h \in DOMAIN SECTION_HEADERS : Strip(StrLower(line)) = SECTION_HEADERS[h]

\* [w for w in re.split(r'\s+', line) if w]
NameWords(line) == NonEmpty(ReSplit(Plus(Set(SpaceSet)), line, FALSE))

\* sum(1 for w in words if w[0:1].isupper())
CapsCount(words) == Cardinality({j \in DOMAIN words : words[j][1] \in UpperSet})

\* The pattern without the space: [A-Z]{2,}
IsBannerNoSpace(line) == ReFullMatch(Rep(Set(UpperSet), 2, Unbounded), line, FALSE)

\* re.fullmatch(r'[A-Z ]{2,}', line)
IsBanner(line) ==
    ReFullMatch(Rep(Set(UpperSet \cup {" "}), 2, Unbounded), line, FALSE)

\* The checks of lines 113-122, all but the banner check:
\* caps / len(words) >= 0.6 is 10 * caps >= 6 * len(words)
PassesChecks(line) ==
    /\ ~(Len(line) > NameMaxLen)
    /\ ~HasContactMark(line)
    /\ ~IsHeaderWord(line)
    /\ LET words == NameWords(line)
       IN  /\ 1 <= Len(words) /\ Len(words) <= NameMaxWords
           /\ 10 * CapsCount(words) >= 6 * Len(words)

Min2(a, b) == IF a <= b THEN a ELSE b

RECURSIVE GuessFrom(_, _)
\* The loop of guess_name from i (counted from 0) on
GuessFrom(ls, i) ==
    IF i >= Min2(NameScanLimit, Len(ls)) THEN <<>>
    ELSE IF PassesChecks(ls[i + 1]) /\ ~IsBanner(ls[i + 1]) THEN ls[i + 1]
    ELSE GuessFrom(ls, i + 1)

guess_name(ls) == GuessFrom(ls, 0)

-----------------------------------------------------------------------------
(* SpecName: guess_name on a sequence of lines *)

MaxNameLines == 8

NameLines ==
    { <<"A","B"," ","C">>,
      <<"A">>,
      <<"A","l"," ","B","o">>,
      <<"J","o","@","x">> }

InitName ==
    /\ pc = "guess"
    /\ lines \in SeqsUpTo(NameLines, MaxNameLines)
    /\ sections = <<>>
    /\ ret = <<>>
    /\ NoText /\ NoLoop /\ NoRuns

CallGuessName ==
    /\ pc = "guess"
    /\ pc' = "guessed"
    /\ ret' = guess_name(lines)
    /\ UNCHANGED <<raw, text, lines, sections, k, current, cur, entries, hashseed, out>>

NextName == CallGuessName

SpecName == InitName /\ [][NextName]_vars

\* The line consists of uppercase letters and spaces only
AllUpperOrSpace(line) == \A j \in 1..Len(line) : line[j] \in UpperSet \cup {" "}

\* The line has two characters or more, all uppercase letters and spaces
LongAllUpperOrSpace(line) == Len(line) >= 2 /\ AllUpperOrSpace(line)

\* r is the first of the first 7 lines of ls that passes the checks and is no
\* banner, or the empty string when there is none
IsFirstPassing(ls, r, Banner(_)) ==
    LET n == Min2(NameScanLimit, Len(ls))
        isOk(i) == PassesChecks(ls[i]) /\ ~Banner(ls[i])
    IN  \/ /\ r = <<>>
           /\ \A i \in 1..n : ~isOk(i)
        \/ \E i \in 1..n :
              /\ r = ls[i]
              /\ isOk(i)
              /\ \A j \in 1..(i - 1) : ~isOk(j)

\* C7 as stated: the result is the first of the first 7 lines that passes the
\* checks and is not all uppercase letters and spaces, of whatever length, or
\* the empty string when there is none; no line of uppercase letters and spaces
\* is returned.
C7_NeverAllCaps ==
    pc = "guessed" =>
        /\ IsFirstPassing(lines, ret, AllUpperOrSpace)
        /\ ~(ret # <<>> /\ AllUpperOrSpace(ret))

\* C7 amended: the same, where the lines set aside as banners are those of two
\* or more characters that are all uppercase letters and spaces; a line of one
\* uppercase letter is returned.
C7_NeverLongAllCaps ==
    pc = "guessed" =>
        /\ IsFirstPassing(lines, ret, LongAllUpperOrSpace)
        /\ ~LongAllUpperOrSpace(ret)

\* A banner of several characters comes first and is passed over for the name
\* on a later line.
C7_Witness ==
    /\ pc = "guessed"
    /\ Len(lines) >= 2
    /\ Len(lines[1]) >= 2
    /\ AllUpperOrSpace(lines[1])
    /\ PassesChecks(lines[1])
    /\ ret # <<>>
    /\ ~AllUpperOrSpace(ret)

-----------------------------------------------------------------------------
(* extract_contact_info *)

AlnumSet == UpperSet \cup LowerSet \cup DigitSet
DashOrSpace == Set({"-", " "})
Digit == Set(DigitSet)

\* r'[A-Za-z0-9._%+-]+@[A-Za-z0-9.-]+\.[A-Za-z]{2,}'
email_regex ==
    Cat(<<Plus(Set(AlnumSet \cup {".", "_", "%", "+", "-"})),
          Lit(<<"@">>),
          Plus(Set(AlnumSet \cup {".", "-"})),
          Lit(<<".">>),
          Rep(Set(UpperSet \cup LowerSet), 2, Unbounded)>>)

\* r'(?:\+?91[\- ]?)?(?:0[\- ]?)?[6-9]\d{9}'
phone_regex_india ==
    Cat(<<Opt(Cat(<<Opt(Lit(<<"+">>)), Lit(<<"9", "1">>), Opt(DashOrSpace)>>)),
          Opt(Cat(<<Lit(<<"0">>), Opt(DashOrSpace)>>)),
          Set({"6", "7", "8", "9"}),
          Rep(Digit, 9, 9)>>)

\* r'\+\d{1,3}[\- ]?\(?\d{1,4}\)?[\- ]?\d{3,4}[\- ]?\d{3,4}'
phone_regex_intl ==
    Cat(<<Lit(<<"+">>), Rep(Digit, 1, 3), Opt(DashOrSpace),
          Opt(Lit(<<"(">>)), Rep(Digit, 1, 4), Opt(Lit(<<")">>)), Opt(DashOrSpace),
          Rep(Digit, 3, 4), Opt(DashOrSpace), Rep(Digit, 3, 4)>>)

\* r'https?://[\w\-./?=&%#]+'
url_regex ==
    Cat(<<Lit(<<"h","t","t","p">>), Opt(Lit(<<"s">>)), Lit(<<":","/","/">>),
          Plus(Set(WordSet \cup {"-", ".", "/", "?", "=", "&", "%", "#"}))>>)

RECURSIVE CleanPhones(_)
\* [re.sub(r'\s+', ' ', p).strip() for p in phones]
CleanPhones(ps) ==
    IF ps = <<>> THEN <<>>
    ELSE <<Strip(ReSub(Plus(Set(SpaceSet)), <<" ">>, ps[1], FALSE))>>
         \o CleanPhones(Tail(ps))

\* seq[:n]
Take(seq, n) == SubSeq(seq, 1, Min2(n, Len(seq)))

linkedin_com == <<"l","i","n","k","e","d","i","n",".","c","o","m">>
github_com == <<"g","i","t","h","u","b",".","c","o","m">>

extract_contact_info(t) ==
    LET emails == ReFindAll(email_regex, t, TRUE)
        phones == DictFromKeys(CleanPhones(ReFindAll(phone_regex_india, t, TRUE)
                                           \o ReFindAll(phone_regex_intl, t, TRUE)))
        urls == ReFindAll(url_regex, t, FALSE)
    IN  [emails |-> DictFromKeys(emails),
         phones |-> phones,
         linkedin |-> Take(SelectSeq(urls, LAMBDA u : Contains(u, linkedin_com)), 1),
         github |-> Take(SelectSeq(urls, LAMBDA u : Contains(u, github_com)), 1),
         portfolio |-> Take(SelectSeq(urls, LAMBDA u : ~Contains(u, linkedin_com)
                                                   /\ ~Contains(u, github_com)), 3)]

-----------------------------------------------------------------------------
(* SpecContact: extract_contact_info on a text *)

MaxContactTokens == 3

ContactTokens ==
    { <<"A","@","b",".","c","o">>,
      <<"a","@","b",".","c","o">>,
      <<"c","@","d",".","i","o">>,
      <<"9","8","1","2","3","4","5","6","7","8">>,
      <<"+","1"," ","2","3","4"," ","5","6","7"," ","8","9","0","1">>,
      <<"h","t","t","p",":","/","/","g","i","t","h","u","b",".","c","o","m","/","x">>,
      <<"h","t","t","p","s",":","/","/","x",".","i","o">> }

InitContact ==
    /\ pc = "extract"
    /\ \E tokens \in SeqsUpTo(ContactTokens, MaxContactTokens) :
          /\ raw = Join(tokens, <<" ">>)
          /\ text = raw
    /\ ret = <<>>
    /\ NoLines /\ NoLoop /\ NoRuns

CallExtractContactInfo ==
    /\ pc = "extract"
    /\ pc' = "extracted"
    /\ ret' = extract_contact_info(text)
    /\ UNCHANGED <<raw, text, lines, sections, k, current, cur, entries, hashseed, out>>

NextContact == CallExtractContactInfo

SpecContact == InitContact /\ [][NextContact]_vars

\* C5: no two of the returned emails are equal when compared without case, and
\* each returned email is the first match of its case-insensitive class, in
\* the order of the matches.
C5_EmailsUniqueIgnoringCase ==
    pc = "extracted" =>
        LET es == ret.emails
            ms == ReFindAll(email_regex, text, TRUE)
            firsts == {m \in DOMAIN ms :
                         \A n \in 1..(m - 1) : StrLower(ms[n]) # StrLower(ms[m])}
        IN  /\ \A i, j \in DOMAIN es : i < j => StrLower(es[i]) # StrLower(es[j])
            /\ Len(es) = Cardinality(firsts)
            /\ \A i \in DOMAIN es : \E m \in firsts : es[i] = ms[m]

-----------------------------------------------------------------------------
(* parse_skills *)

\* COMMON_SKILLS, a set literal, in the order it is written
SkillList ==
    << <<"s","q","l">>,
       <<"p","y","t","h","o","n">>,
       <<"e","x","c","e","l">>,
       <<"m","i","c","r","o","s","o","f","t"," ","e","x","c","e","l">>,
       <<"p","o","w","e","r"," ","b","i">>,
       <<"t","a","b","l","e","a","u">>,
       <<"j","i","r","a">>,
       <<"c","o","n","f","l","u","e","n","c","e">>,
       <<"p","a","n","d","a","s">>,
       <<"n","u","m","p","y">>,
       <<"m","a","t","p","l","o","t","l","i","b">>,
       <<"s","e","a","b","o","r","n">>,
       <<"s","c","i","k","i","t","-","l","e","a","r","n">>,
       <<"m","a","c","h","i","n","e"," ","l","e","a","r","n","i","n","g">>,
       <<"s","t","a","t","i","s","t","i","c","s">>,
       <<"h","t","m","l">>,
       <<"c","s","s">>,
       <<"j","a","v","a","s","c","r","i","p","t">>,
       <<"g","i","t">>,
       <<"g","i","t","h","u","b">>,
       <<"a","g","i","l","e">>,
       <<"s","t","a","k","e","h","o","l","d","e","r"," ","m","a","n","a","g","e","m","e","n","t">>,
       <<"f","i","n","a","n","c","i","a","l"," ","a","n","a","l","y","s","i","s">>,
       <<"m","a","r","k","e","t"," ","r","e","s","e","a","r","c","h">>,
       <<"d","a","t","a"," ","a","n","a","l","y","s","i","s">>,
       <<"b","u","s","i","n","e","s","s"," ","i","n","t","e","l","l","i","g","e","n","c","e">> >>

COMMON_SKILLS == {SkillList[j] : j \in DOMAIN SkillList}

\* The order in which CPython 3.11 iterates over COMMON_SKILLS when the process
\* runs with PYTHONHASHSEED = 0, 1, 2, 3 (positions in SkillList).  The seed is
\* drawn at random when the interpreter starts, so each run of the program has
\* its own.
HashOrders ==
    << <<17,11,18,22,12,26,21,15,10,14,5,24,1,20,7,19,9,25,6,3,2,8,23,16,13,4>>,
       <<25,13,7,24,15,14,9,5,26,18,16,4,22,6,8,10,17,3,20,19,1,12,2,21,23,11>>,
       <<21,17,14,25,1,10,3,6,22,20,4,12,24,13,15,7,11,18,26,2,19,16,9,23,5,8>>,
       <<15,18,21,16,13,7,6,23,4,11,5,8,20,14,2,3,24,10,19,22,25,1,9,17,12,26>> >>

IterOrder(seed) == [j \in 1..Len(SkillList) |-> SkillList[HashOrders[seed + 1][j]]]

\* r',|;|\|/|\n|•|' + BULLET + '|-'
skills_split_regex ==
    Alt(<<Lit(<<",">>), Lit(<<";">>), Lit(<<"|", "/">>), Lit(<<LF>>),
          Lit(<<BULLET>>), Lit(<<BULLET>>), Lit(<<"-">>)>>)

SkillMaxLen == 40

RECURSIVE SkillTokens(_)
\* The loop of lines 133-136 over the parts
SkillTokens(parts) ==
    IF parts = <<>> THEN <<>>
    ELSE LET token == StrLower(Strip(parts[1]))
         IN  (IF token # <<>> /\ Len(token) <= SkillMaxLen THEN <<token>> ELSE <<>>)
             \o SkillTokens(Tail(parts))

RECURSIVE VocabHits(_, _)
\* The loop of lines 139-141 over the vocabulary in iteration order
VocabHits(order, lt) ==
    IF order = <<>> THEN <<>>
    ELSE (IF Contains(lt, order[1]) THEN <<order[1]>> ELSE <<>>)
         \o VocabHits(Tail(order), lt)

skills_key == <<"s","k","i","l","l","s">>

\* lines[s:e], with s and e counted from 0
LineRange(ls, s, e) == Slice(ls, Min2(s, Len(ls)), Min2(e, Len(ls)))

\* parse_skills when 'skills' is a key of sections
parse_skills_section(secs, ls) ==
    LET block == Join(LineRange(ls, secs[skills_key][1], secs[skills_key][2]), <<" ">>)
    IN  DictFromKeys(SkillTokens(ReSplit(skills_split_regex, block, FALSE)))

\* parse_skills when it is not: seed is the hash seed of the running process
parse_skills_fallback(t, seed) == DictFromKeys(VocabHits(IterOrder(seed), StrLower(t)))

-----------------------------------------------------------------------------
(* SpecSkills: the same resume parsed by parse_skills in separate runs of the *)
(* program, each an interpreter process with its own hash seed               *)

NumRuns == 2
MaxSeed == 1
MaxSkillLines == 3

Runs == 1..NumRuns

SkillLines ==
    { <<"S","k","i","l","l","s">>,
      <<"S","Q","L",","," ","G","i","t",";","s","q","l">>,
      <<"a","|","b","/","c">>,
      <<"x","|","/","y","-","z",BULLET,"w">>,
      <<"g","i","t"," ","s","q","l">>,
      <<"q","q","q","q","q","q","q","q","q","q","q","q","q","q","q","q","q","q","q","q","q","q","q","q","q","q","q","q","q","q","q","q","q","q","q","q","q","q","q","q","q">> }

InitSkills ==
    /\ lines \in SeqsUpTo(SkillLines, MaxSkillLines)
    /\ raw = Join(lines, <<LF>>)
    /\ text = raw
    /\ sections = locate_sections(lines)
    /\ hashseed \in [Runs -> 0..MaxSeed]
    /\ pc = [r \in Runs |-> "parse_skills"]
    /\ out = [r \in Runs |-> <<>>]
    /\ ret = <<>>
    /\ NoLoop

ParseSkillsSection(r) ==
    /\ pc[r] = "parse_skills"
    /\ skills_key \in DOMAIN sections
    /\ out' = [out EXCEPT ![r] = parse_skills_section(sections, lines)]
    /\ pc' = [pc EXCEPT ![r] = "returned"]
    /\ UNCHANGED <<raw, text, lines, sections, ret, k, current, cur, entries, hashseed>>

ParseSkillsFallback(r) ==
    /\ pc[r] = "parse_skills"
    /\ skills_key \notin DOMAIN sections
    /\ out' = [out EXCEPT ![r] = parse_skills_fallback(text, hashseed[r])]
    /\ pc' = [pc EXCEPT ![r] = "returned"]
    /\ UNCHANGED <<raw, text, lines, sections, ret, k, current, cur, entries, hashseed>>

NextSkills ==
    \/ \E r \in Runs : ParseSkillsSection(r)
    \/ \E r \in Runs : ParseSkillsFallback(r)

SpecSkills == InitSkills /\ [][NextSkills]_vars

\* The characters the specification lists as delimiters of the skills block
SkillDelimiters == {",", ";", "|", "/", LF, BULLET, "-"}

\* C6: with a skills section, every returned token is trimmed, lowercase,
\* non-empty, of at most 40 characters, free of the delimiters comma,
\* semicolon, pipe, slash, newline, bullet and hyphen, and occurs once.
C6_SkillTokensSplitOnEveryDelimiter ==
    \A r \in Runs :
        (pc[r] = "returned" /\ skills_key \in DOMAIN sections) =>
            /\ \A i \in DOMAIN out[r] :
                 /\ out[r][i] # <<>>
                 /\ Strip(out[r][i]) = out[r][i]
                 /\ StrLower(out[r][i]) = out[r][i]
                 /\ Len(out[r][i]) <= 40
                 /\ \A j \in DOMAIN out[r][i] : out[r][i][j] \notin SkillDelimiters
            /\ \A i, j \in DOMAIN out[r] : i < j => out[r][i] # out[r][j]

\* C8: two invocations of parse_skills with the same text, sections and lines
\* return the same list in the same order.
C8_SkillsDeterministic ==
    \A r1, r2 \in Runs :
        (pc[r1] = "returned" /\ pc[r2] = "returned") => out[r1] = out[r2]

-----------------------------------------------------------------------------
(* parse_education *)

DotOpt == Opt(Lit(<<".">>))

\* r'\b(b\.?e\.?|b\.?tech|bachelor|m\.?e\.?|m\.?tech|master|mba|bsc|msc|phd)\b'
degree_regex ==
    Cat(<<WordB,
          Alt(<<Cat(<<Lit(<<"b">>), DotOpt, Lit(<<"e">>), DotOpt>>),
                Cat(<<Lit(<<"b">>), DotOpt, Lit(<<"t","e","c","h">>)>>),
                Lit(<<"b","a","c","h","e","l","o","r">>),
                Cat(<<Lit(<<"m">>), DotOpt, Lit(<<"e">>), DotOpt>>),
                Cat(<<Lit(<<"m">>), DotOpt, Lit(<<"t","e","c","h">>)>>),
                Lit(<<"m","a","s","t","e","r">>),
                Lit(<<"m","b","a">>),
                Lit(<<"b","s","c">>),
                Lit(<<"m","s","c">>),
                Lit(<<"p","h","d">>)>>),
          WordB>>)

\* r'(20\d{2}|19\d{2})'
year_token_regex ==
    Alt(<<Cat(<<Lit(<<"2", "0">>), Rep(Digit, 2, 2)>>),
          Cat(<<Lit(<<"1", "9">>), Rep(Digit, 2, 2)>>)>>)

\* r'university|college|institute|iit|nit'
institution_regex ==
    Alt(<<Lit(<<"u","n","i","v","e","r","s","i","t","y">>), Lit(<<"c","o","l","l","e","g","e">>), Lit(<<"i","n","s","t","i","t","u","t","e">>),
          Lit(<<"i","i","t">>), Lit(<<"n","i","t">>)>>)

\* r'(?:cgpa|gpa|percentage)[: ]+([0-9.]{1,4})': the part before the group,
\* and the group
grade_prefix_regex ==
    Cat(<<Alt(<<Lit(<<"c","g","p","a">>), Lit(<<"g","p","a">>), Lit(<<"p","e","r","c","e","n","t","a","g","e">>)>>),
          Plus(Set({":", " "}))>>)
grade_group_regex == Rep(Set(DigitSet \cup {"."}), 1, 4)

RECURSIVE GroupFrom(_, _)
\* The first way to end the prefix (in the matcher's order) after which the
\* group matches: <<start of the group, end of the group>>, or <<>>
GroupFrom(s, prefixEnds) ==
    IF prefixEnds = <<>> THEN <<>>
    ELSE LET ge == Ends(grade_group_regex, s, prefixEnds[1], FALSE)
         IN  IF ge # <<>> THEN <<prefixEnds[1], ge[1]>>
             ELSE GroupFrom(s, Tail(prefixEnds))

RECURSIVE GradeFrom(_, _)
\* g.group(1) of the search from offset p on, or <<>> when nothing matches
GradeFrom(s, p) ==
    IF p > Len(s) THEN <<>>
    ELSE LET g == GroupFrom(s, Ends(grade_prefix_regex, s, p, FALSE))
         IN  IF g # <<>> THEN Slice(s, g[1], g[2]) ELSE GradeFrom(s, p + 1)

education_key == <<"e","d","u","c","a","t","i","o","n">>

\* d[key] = value
DictSet(d, key, value) == (key :> value) @@ d

\* The body of the loop for a line that is no degree line (lines 161-168)
EducationFields(cu, line) ==
    LET ll == StrLower(line)
        m == ReFindAll(year_token_regex, line, FALSE)
        c1 == IF m # <<>> THEN DictSet(cu, "year", m[Len(m)]) ELSE cu
        c2 == IF ReSearch(institution_regex, ll, FALSE)
              THEN DictSet(c1, "institution", line) ELSE c1
        g == GradeFrom(ll, 0)
    IN  IF g # <<>> THEN DictSet(c2, "grade", g) ELSE c2

-----------------------------------------------------------------------------
(* SpecEducation: parse_education, one action for an iteration of its loop *)

MaxEduLines == 4

EduLines ==
    { <<"E","d","u","c","a","t","i","o","n">>,
      <<"M","B","A"," ","2","0","2","1">>,
      <<"I","I","T"," ","1","9","9","9"," ","2","0","2","0">>,
      <<"G","P","A",":"," ","8",".","5">> }

InitEducation ==
    /\ pc = "parse_education"
    /\ lines \in SeqsUpTo(EduLines, MaxEduLines)
    /\ sections = locate_sections(lines)
    /\ ret = <<>>
    /\ NoText /\ NoLoop /\ NoRuns

\* if 'education' not in sections: return entries
EduNoSection ==
    /\ pc = "parse_education"
    /\ education_key \notin DOMAIN sections
    /\ pc' = "edu_done"
    /\ ret' = <<>>
    /\ UNCHANGED <<raw, text, lines, sections, k, current, cur, entries, hashseed, out>>

\* s, e = sections['education']; current = {}
EduEnter ==
    /\ pc = "parse_education"
    /\ education_key \in DOMAIN sections
    /\ pc' = "edu_loop"
    /\ k' = sections[education_key][1]
    /\ current' = <<>>
    /\ entries' = <<>>
    /\ UNCHANGED <<raw, text, lines, sections, ret, hashseed, out, cur>>

\* The line the loop reads next is lines[k], k counted from 0
EduHasLine == k < Min2(sections[education_key][2], Len(lines))

\* A degree line: flush a non-empty accumulator, start a new one, continue
EduDegreeLine ==
    /\ pc = "edu_loop"
    /\ EduHasLine
    /\ ReSearch(degree_regex, StrLower(lines[k + 1]), FALSE)
    /\ entries' = IF current # <<>> THEN Append(entries, current) ELSE entries
    /\ current' = DictSet(<<>>, "degree", lines[k + 1])
    /\ k' = k + 1
    /\ UNCHANGED <<pc, raw, text, lines, sections, ret, hashseed, out, cur>>

\* Any other line: year, institution, grade
EduFieldLine ==
    /\ pc = "edu_loop"
    /\ EduHasLine
    /\ ~ReSearch(degree_regex, StrLower(lines[k + 1]), FALSE)
    /\ current' = EducationFields(current, lines[k + 1])
    /\ k' = k + 1
    /\ UNCHANGED <<pc, raw, text, lines, sections, ret, entries, hashseed, out, cur>>

\* After the loop: flush a non-empty accumulator, return entries
EduReturn ==
    /\ pc = "edu_loop"
    /\ ~EduHasLine
    /\ pc' = "edu_done"
    /\ entries' = IF current # <<>> THEN Append(entries, current) ELSE entries
    /\ ret' = entries'
    /\ UNCHANGED <<raw, text, lines, sections, k, current, hashseed, out, cur>>

NextEducation ==
    \/ EduNoSection
    \/ EduEnter
    \/ EduDegreeLine
    \/ EduFieldLine
    \/ EduReturn

SpecEducation == InitEducation /\ [][NextEducation]_vars

\* C9: after the loop has processed a line of the education section that holds
\* a year token, a degree line included, the year of the current entry is the
\* last year token of that line.
C9_YearSetOnEveryLine ==
    (pc = "edu_loop" /\ k > sections[education_key][1]) =>
        LET m == ReFindAll(year_token_regex, lines[k], FALSE)
        IN  m # <<>> =>
               /\ "year" \in DOMAIN current
               /\ current["year"] = m[Len(m)]

-----------------------------------------------------------------------------
(* parse_dates *)

\* r'(?:jan|feb|mar|apr|may|jun|jul|aug|sep|oct|nov|dec)'
month_pat ==
    Alt(<<Lit(<<"j","a","n">>), Lit(<<"f","e","b">>), Lit(<<"m","a","r">>), Lit(<<"a","p","r">>), Lit(<<"m","a","y">>), Lit(<<"j","u","n">>),
          Lit(<<"j","u","l">>), Lit(<<"a","u","g">>), Lit(<<"s","e","p">>), Lit(<<"o","c","t">>), Lit(<<"n","o","v">>), Lit(<<"d","e","c">>)>>)

\* r'(?:19|20)\d{2}'
year_pat == Cat(<<Alt(<<Lit(<<"1", "9">>), Lit(<<"2", "0">>)>>), Rep(Digit, 2, 2)>>)

Spaces == Star(Lit(<<" ">>))

\* r' *(?:-|to) *'
DashOrTo == Cat(<<Spaces, Alt(<<Lit(<<"-">>), Lit(<<"t", "o">>)>>), Spaces>>)

present == Lit(<<"p","r","e","s","e","n","t">>)

date_patterns ==
    << Cat(<<month_pat, Spaces, year_pat, DashOrTo, month_pat, Spaces, year_pat>>),
       Cat(<<month_pat, Spaces, year_pat, DashOrTo, present>>),
       Cat(<<year_pat, DashOrTo, year_pat>>),
       Cat(<<year_pat, DashOrTo, present>>) >>

RECURSIVE FirstDateMatch(_, _)
\* The loop over the patterns from the j-th on: m.group(0) of the first that
\* is found in ll, or <<>>
FirstDateMatch(ll, j) ==
    IF j > Len(date_patterns) THEN <<>>
    ELSE LET m == ReSearchFrom(date_patterns[j], ll, 0, FALSE)
         IN  IF m # <<>> THEN Slice(ll, m[1], m[2]) ELSE FirstDateMatch(ll, j + 1)

parse_dates(line) == FirstDateMatch(StrLower(line), 1)

-----------------------------------------------------------------------------
(* parse_experience *)

experience_keys ==
    <<<<"e","x","p","e","r","i","e","n","c","e">>, <<"w","o","r","k"," ","e","x","p","e","r","i","e","n","c","e">>, <<"p","r","o","f","e","s","s","i","o","n","a","l"," ","e","x","p","e","r","i","e","n","c","e">>>>

\* The first of the three keys that sections holds: its place in experience_keys,
\* or 0
ExperienceKey(secs) ==
    LET has == {j \in DOMAIN experience_keys : experience_keys[j] \in DOMAIN secs}
    IN  IF has = {} THEN 0 ELSE CHOOSE j \in has : \A i \in has : j <= i

BulletGlyphs == {"-", "*", BULLET}

\* re.match(r'^[-*•] ', line)
IsBulletLine(line) == ReMatch(Cat(<<Bol, Set(BulletGlyphs), Lit(<<" ">>)>>), line, FALSE)

\* line.lstrip('-*• ')
BulletText(line) == LStripSet(line, BulletGlyphs \cup {" "})

\* sum(1 for w in line.split() if w[:1].isupper())
CapWords(line) == CapsCount(Words(line))

\* re.search(r'@| at ', line.lower())
HasAtMark(line) ==
    ReSearch(Alt(<<Lit(<<"@">>), Lit(<<" ", "a", "t", " ">>)>>), StrLower(line), FALSE)

\* The condition of line 208
IsRoleHeader(line) ==
    \/ HasAtMark(line)
    \/ (CapWords(line) >= 3 /\ Len(Words(line)) <= 12)

\* r'\s@\s|\s at \s'
header_split_regex ==
    Alt(<<Cat(<<Set(SpaceSet), Lit(<<"@">>), Set(SpaceSet)>>),
          Cat(<<Set(SpaceSet), Lit(<<" ", "a", "t", " ">>), Set(SpaceSet)>>)>>)

\* r'\s-\s|\s\|\s'
header_split_regex2 ==
    Alt(<<Cat(<<Set(SpaceSet), Lit(<<"-">>), Set(SpaceSet)>>),
          Cat(<<Set(SpaceSet), Lit(<<"|">>), Set(SpaceSet)>>)>>)

\* The branch of the loop body that a line takes, in the order of the tests;
\* "none" is a line that the loop passes over: a blank line, or a line that no
\* test takes and that is not longer than 10 characters
LineKind(line) ==
    IF Strip(line) = <<>> THEN "none"
    ELSE IF IsBulletLine(line) THEN "bullet"
    ELSE IF parse_dates(line) # <<>> THEN "dates"
    ELSE IF IsRoleHeader(line) THEN "header"
    ELSE IF Len(line) > 10 THEN "description"
    ELSE "none"

\* cur.get(key), as a truth value
Truthy(d, key) == key \in DOMAIN d /\ d[key] # <<>>

\* cur.get('role') or cur.get('company') or cur.get('bullets')
HasEntry(d) == Truthy(d, "role") \/ Truthy(d, "company") \/ Truthy(d, "bullets")

\* cur.setdefault(key, []).append(item)
DictAppend(d, key, item) ==
    DictSet(d, key, Append(IF key \in DOMAIN d THEN d[key] ELSE <<>>, item))

NewCur == DictSet(<<>>, "bullets", <<>>)

\* Lines 212-220: the entry that a header line starts
HeaderEntry(line) ==
    LET m == ReSplit(header_split_regex, line, TRUE)
        m2 == ReSplit(header_split_regex2, line, FALSE)
    IN  IF Len(m) = 2
        THEN DictSet(DictSet(NewCur, "role", Strip(m[1])), "company", Strip(m[2]))
        ELSE IF Len(m2) = 2
        THEN DictSet(DictSet(NewCur, "role", Strip(m2[1])), "company", Strip(m2[2]))
        ELSE DictSet(NewCur, "role", Strip(line))

-----------------------------------------------------------------------------
(* SpecExperience: parse_experience, one action for an iteration of its loop *)

MaxExpLines == 4

ExpLines ==
    { <<"E","x","p","e","r","i","e","n","c","e">>,
      <<"D","e","v"," ","@"," ","A","c","m","e">>,
      <<"D","e","v"," ","a","t"," ","A","c","m","e">>,
      <<"B","i","g"," ","D","e","v"," ","-"," ","A","c","m","e">>,
      <<"-"," ","B","u","i","l","t"," ","X">>,
      <<"2","0","2","0"," ","-"," ","2","0","2","1">>,
      <<"W","o","r","k","e","d"," ","o","n"," ","i","t">>,
      <<"m","i","s","c">> }

InitExperience ==
    /\ pc = "parse_experience"
    /\ lines \in SeqsUpTo(ExpLines, MaxExpLines)
    /\ sections = locate_sections(lines)
    /\ ret = <<>>
    /\ NoText /\ NoLoop /\ NoRuns

\* if not key: return entries
ExpNoSection ==
    /\ pc = "parse_experience"
    /\ ExperienceKey(sections) = 0
    /\ pc' = "exp_done"
    /\ ret' = <<>>
    /\ UNCHANGED <<raw, text, lines, sections, k, current, cur, entries, hashseed, out>>

\* s, e = sections[key]; cur = {'bullets': []}
ExpEnter ==
    /\ pc = "parse_experience"
    /\ ExperienceKey(sections) # 0
    /\ pc' = "exp_loop"
    /\ k' = sections[experience_keys[ExperienceKey(sections)]][1]
    /\ cur' = NewCur
    /\ entries' = <<>>
    /\ UNCHANGED <<raw, text, lines, sections, ret, hashseed, out, current>>

\* The line the loop reads next is lines[k], k counted from 0, of this kind
ExpNextIs(kind) ==
    /\ pc = "exp_loop"
    /\ k < Min2(sections[experience_keys[ExperienceKey(sections)]][2], Len(lines))
    /\ LineKind(lines[k + 1]) = kind

ExpBullet ==
    /\ ExpNextIs("bullet")
    /\ cur' = DictAppend(cur, "bullets", BulletText(lines[k + 1]))
    /\ k' = k + 1
    /\ UNCHANGED <<pc, raw, text, lines, sections, ret, entries, hashseed, out, current>>

ExpDates ==
    /\ ExpNextIs("dates")
    /\ cur' = DictSet(cur, "dates", parse_dates(lines[k + 1]))
    /\ k' = k + 1
    /\ UNCHANGED <<pc, raw, text, lines, sections, ret, entries, hashseed, out, current>>

\* A role/company line: flush the accumulator if it has an entry, start anew
ExpHeader ==
    /\ ExpNextIs("header")
    /\ entries' = IF HasEntry(cur) THEN Append(entries, cur) ELSE entries
    /\ cur' = HeaderEntry(lines[k + 1])
    /\ k' = k + 1
    /\ UNCHANGED <<pc, raw, text, lines, sections, ret, hashseed, out, current>>

ExpDescription ==
    /\ ExpNextIs("description")
    /\ cur' = DictAppend(cur, "description", lines[k + 1])
    /\ k' = k + 1
    /\ UNCHANGED <<pc, raw, text, lines, sections, ret, entries, hashseed, out, current>>

\* A line that the loop passes over
ExpIgnored ==
    /\ ExpNextIs("none")
    /\ k' = k + 1
    /\ UNCHANGED <<pc, raw, text, lines, sections, ret, cur, entries, hashseed, out, current>>

\* After the loop: flush the accumulator if it has an entry, return entries
ExpReturn ==
    /\ pc = "exp_loop"
    /\ ~(k < Min2(sections[experience_keys[ExperienceKey(sections)]][2], Len(lines)))
    /\ pc' = "exp_done"
    /\ entries' = IF HasEntry(cur) THEN Append(entries, cur) ELSE entries
    /\ ret' = entries'
    /\ UNCHANGED <<raw, text, lines, sections, k, cur, hashseed, out, current>>

NextExperience ==
    \/ ExpNoSection
    \/ ExpEnter
    \/ ExpBullet
    \/ ExpDates
    \/ ExpHeader
    \/ ExpDescription
    \/ ExpIgnored
    \/ ExpReturn

SpecExperience == InitExperience /\ [][NextExperience]_vars

\* The active section, as the places (from 1) of its lines
ActiveRange ==
    LET r == sections[experience_keys[ExperienceKey(sections)]]
    IN  (r[1] + 1)..Min2(r[2], Len(lines))

\* The places of the active section before its first role/company line
BeforeFirstHeader ==
    {j \in ActiveRange : \A i \in ActiveRange : i <= j => LineKind(lines[i]) # "header"}

InSomeList(es, key, item) ==
    \E n \in DOMAIN es :
        key \in DOMAIN es[n] /\ \E i \in DOMAIN es[n][key] : es[n][key][i] = item

\* C2: every bullet line and every description line of the active section that
\* comes before the first role/company line is in the bullets or in the
\* description of some returned entry.
C2_LeadingLinesKept ==
    (pc = "exp_done" /\ ExperienceKey(sections) # 0) =>
        \A j \in BeforeFirstHeader :
            /\ LineKind(lines[j]) = "bullet"
                  => InSomeList(ret, "bullets", BulletText(lines[j]))
            /\ LineKind(lines[j]) = "description"
                  => InSomeList(ret, "description", lines[j])

\* The offsets at which sep occurs in s
Occurrences(s, sep) ==
    {p \in 0..(Len(s) - Len(sep)) : Slice(s, p, p + Len(sep)) = sep}

\* role and company are the trimmed texts on either side of the separator of
\* length n at offset p
SplitAt(d, line, p, n) ==
    /\ "role" \in DOMAIN d /\ d["role"] = Strip(Slice(line, 0, p))
    /\ "company" \in DOMAIN d /\ d["company"] = Strip(Slice(line, p + n, Len(line)))

\* C10: after the loop has taken a line as a role/company line, the entry it
\* started has role and company from the only ' @ ' or the only ' at '
\* (whatever the case of the letters) of the line when the line holds exactly
\* one of the two; from the only ' - ' or ' | ' when it holds neither of the
\* first two and exactly one of these; and the whole line as role, with no
\* company, when it holds none of the four.
C10_HeaderSplit ==
    (pc = "exp_loop" /\ k > sections[experience_keys[ExperienceKey(sections)]][1]
                     /\ LineKind(lines[k]) = "header") =>
        LET line == lines[k]
            ats == Occurrences(StrLower(line), <<" ", "@", " ">>)
            ws == Occurrences(StrLower(line), <<" ", "a", "t", " ">>)
            ds == Occurrences(line, <<" ", "-", " ">>) \cup Occurrences(line, <<" ", "|", " ">>)
        IN  /\ (Cardinality(ats) = 1 /\ ws = {})
                  => SplitAt(cur, line, CHOOSE p \in ats : TRUE, 3)
            /\ (Cardinality(ws) = 1 /\ ats = {})
                  => SplitAt(cur, line, CHOOSE p \in ws : TRUE, 4)
            /\ (ats = {} /\ ws = {} /\ Cardinality(ds) = 1)
                  => SplitAt(cur, line, CHOOSE p \in ds : TRUE, 3)
            /\ (ats = {} /\ ws = {} /\ ds = {})
                  => (cur["role"] = Strip(line) /\ "company" \notin DOMAIN cur)

=============================================================================
